---- MODULE Spec2Model ----
(***************************************************************************)
(* Model of the AutoUniTestGen sample sources:                             *)
(*   - test/mcdc_state_fullopen_test.c : the globals mState / mHandyData,  *)
(*     setUp, evaluate_condition and the nine MC/DC tests run by Unity;    *)
(*   - demo_output/complex_sample.c    : processCommand;                   *)
(*   - doc/sample_with_mock.c          : evaluate_sensor.                  *)
(***************************************************************************)
EXTENDS Integers, Sequences, FiniteSets, TLC

VARIABLES
    mState,                \* [bit |-> [state, act, ...], dat]   (test.c:16-31)
    mHandyData,            \* [af_power_on, op_power_push, unlock] (test.c:33-51)
    test_condition_result, \* test.c:58
    pc,                    \* position of the running program
    cur,                   \* test being run by RUN_TEST (0: none)
    ret,                   \* value returned by the last evaluate_condition()
    observed,              \* per test: what its run evaluated
    CurrentTestFailed,     \* Unity: the running test failed an assertion
    TestFailures,          \* Unity: number of failed tests
    command, arg1, arg2, userPerm, isDebugMode,  \* processCommand parameters
    result,                \* processCommand return value
    stdout,                \* lines printed by the processCommand call
    base_threshold,        \* evaluate_sensor parameter
    sensor_val, threshold, \* evaluate_sensor locals
    calls,                 \* calls evaluate_sensor made to the external functions
    sensor_result          \* evaluate_sensor return value

vars == <<mState, mHandyData, test_condition_result, pc, cur, ret, observed,
          CurrentTestFailed, TestFailures,
          command, arg1, arg2, userPerm, isDebugMode, result, stdout,
          base_threshold, sensor_val, threshold, calls, sensor_result>>

testVars == <<mState, mHandyData, test_condition_result, cur, ret, observed,
              CurrentTestFailed, TestFailures>>

cmdVars == <<command, arg1, arg2, userPerm, isDebugMode, result, stdout>>

sensorVars == <<base_threshold, sensor_val, threshold, calls, sensor_result>>

-----------------------------------------------------------------------------
(* Bounds *)

MaxFailures == 2   \* the runner stops scheduling tests after this many failures
MaxNameLen  == 21  \* longest generated user name passed as arg1
MaxDebug    == 1   \* isDebugMode ranges over -MaxDebug..MaxDebug
MaxValue    == 2   \* sensor values and thresholds range over -MaxValue..MaxValue

-----------------------------------------------------------------------------
(* C strings: a pointer is NULL or the sequence of characters before '\0' *)

NULL == [null |-> TRUE, str |-> <<>>]
Str(chars) == [null |-> FALSE, str |-> chars]

-----------------------------------------------------------------------------
(* mcdc_state_fullopen_test.c : constants and types *)

ACT_INIT    == 2
ACT_NORMAL  == 0
ACT_SETTING == 1
ACT_GLITCH  == 3

Uint8Max  == 255
Uint16Max == 65535
ActWidth  == 2      \* uint16_t act : 2

Pow2(n) == IF n = 1 THEN 2 ELSE IF n = 2 THEN 4 ELSE IF n = 3 THEN 8 ELSE 1

\* value stored by an assignment to an unsigned bit-field of the given width
BitField(v, width) == v % Pow2(width)

\* value stored by an assignment to a uint8_t object
U8(v) == v % (Uint8Max + 1)

\* static struct {...} mState = {0};  bit and dat are two members of a struct
mStateZero ==
    [bit |-> [state |-> 0, act |-> 0, half |-> 0, rvs |-> 0, handmv |-> 0,
              stopsw |-> 0, init |-> 0, strk |-> 0, test |-> 0, error |-> 0,
              safestop |-> 0],
     dat |-> 0]

\* static struct {...} mHandyData = {0};
mHandyDataZero == [af_power_on |-> 0, op_power_push |-> 0, unlock |-> 0]

vHANDY_SET_POWERPON_SEQ  == mHandyData.af_power_on
vHANDY_SET_OP_POWER_PUSH == mHandyData.op_power_push

TestIds == 1..9

T == TRUE
F == FALSE

\* the C1..C8 pattern in the name of test i (test_mcdc_case_NN_<pattern>)
NamePattern(i) ==
    CASE i = 1 -> <<T, T, F, F, F, F, F, T>>
      [] i = 2 -> <<F, T, F, F, F, F, F, T>>
      [] i = 3 -> <<T, F, F, F, F, F, F, T>>
      [] i = 4 -> <<T, T, F, F, F, F, F, F>>
      [] i = 5 -> <<T, F, T, F, F, F, F, T>>
      [] i = 6 -> <<T, F, F, T, F, F, F, T>>
      [] i = 7 -> <<T, F, F, F, T, F, F, T>>
      [] i = 8 -> <<T, F, F, F, F, T, F, T>>
      [] i = 9 -> <<T, F, F, F, F, F, T, T>>

\* the result test i asserts (TEST_ASSERT_TRUE / TEST_ASSERT_FALSE)
Asserted(i) == i \in {1, 5, 6, 7, 8, 9}

NoObservation == [seen |-> FALSE, vec |-> <<>>, outcome |-> FALSE]

-----------------------------------------------------------------------------
(* evaluate_condition and its eight conditions *)

\* C1..C8 of the truth-table comment, evaluated on the current globals
ConditionVector ==
    << mState.bit.act = ACT_INIT,
       vHANDY_SET_POWERPON_SEQ = 1,
       vHANDY_SET_POWERPON_SEQ = 2,
       vHANDY_SET_POWERPON_SEQ = 3,
       vHANDY_SET_POWERPON_SEQ = 6,
       vHANDY_SET_POWERPON_SEQ = 7,
       vHANDY_SET_POWERPON_SEQ = 8,
       vHANDY_SET_OP_POWER_PUSH = 0 >>

\* a slip in the decision: the last permitted sequence value (8) left out
evaluate_condition_without_8 ==
    (mState.bit.act = ACT_INIT) /\
    ((vHANDY_SET_POWERPON_SEQ = 1) \/ (vHANDY_SET_POWERPON_SEQ = 2) \/
     (vHANDY_SET_POWERPON_SEQ = 3) \/ (vHANDY_SET_POWERPON_SEQ = 6) \/
     (vHANDY_SET_POWERPON_SEQ = 7)) /\
    (vHANDY_SET_OP_POWER_PUSH = 0)

evaluate_condition ==
    (mState.bit.act = ACT_INIT) /\
    ((vHANDY_SET_POWERPON_SEQ = 1) \/ (vHANDY_SET_POWERPON_SEQ = 2) \/
     (vHANDY_SET_POWERPON_SEQ = 3) \/ (vHANDY_SET_POWERPON_SEQ = 6) \/
     (vHANDY_SET_POWERPON_SEQ = 7) \/ (vHANDY_SET_POWERPON_SEQ = 8)) /\
    (vHANDY_SET_OP_POWER_PUSH = 0)

-----------------------------------------------------------------------------
(* Unity runner: RUN_TEST(f) calls setUp(), f(), tearDown() *)

\* RUN_TEST(test_mcdc_case_NN): the runner of this model may pick the tests in
\* any order and any number of times; main() picks them once each, 01..09.
RUN_TEST(i) ==
    /\ pc = "main"
    /\ TestFailures < MaxFailures
    /\ cur' = i
    /\ CurrentTestFailed' = FALSE
    /\ pc' = "setUp"
    /\ UNCHANGED <<mState, mHandyData, test_condition_result, ret, observed,
                   TestFailures>>
    /\ UNCHANGED cmdVars
    /\ UNCHANGED sensorVars

setUp ==
    /\ pc = "setUp"
    /\ mState' = [mState EXCEPT !.dat = 0]
    /\ mHandyData' = [mHandyData EXCEPT !.af_power_on = 0, !.op_power_push = 0]
    /\ test_condition_result' = FALSE
    /\ pc' = "test"
    /\ UNCHANGED <<cur, ret, observed, CurrentTestFailed, TestFailures>>
    /\ UNCHANGED cmdVars
    /\ UNCHANGED sensorVars

tearDown ==
    /\ pc = "tearDown"
    /\ TestFailures' = IF CurrentTestFailed THEN TestFailures + 1 ELSE TestFailures
    /\ cur' = 0
    /\ pc' = "main"
    /\ UNCHANGED <<mState, mHandyData, test_condition_result, ret, observed,
                   CurrentTestFailed>>
    /\ UNCHANGED cmdVars
    /\ UNCHANGED sensorVars

\* the three assignments that open every test
AssignInputs(act, af, op) ==
    /\ mState' = [mState EXCEPT !.bit.act = BitField(act, ActWidth)]
    /\ mHandyData' = [mHandyData EXCEPT !.af_power_on = U8(af),
                                        !.op_power_push = U8(op)]

\* TEST_ASSERT_TRUE(evaluate_condition()) / TEST_ASSERT_FALSE(...) in test i,
\* evaluated on the globals as the test's assignments left them
AssertEvaluate(i, expected) ==
    /\ ret' = evaluate_condition'
    /\ CurrentTestFailed' = (ret' # expected)
    /\ observed' = [observed EXCEPT ![i] = [seen |-> TRUE,
                                            vec |-> ConditionVector',
                                            outcome |-> ret']]
    /\ pc' = "tearDown"
    /\ UNCHANGED <<test_condition_result, cur, TestFailures>>
    /\ UNCHANGED cmdVars
    /\ UNCHANGED sensorVars

\* test 02 relying on setUp for mState.bit.act instead of assigning it
test_mcdc_case_02_without_act ==
    /\ pc = "test" /\ cur = 2
    /\ mState' = mState
    /\ mHandyData' = [mHandyData EXCEPT !.af_power_on = U8(1),
                                        !.op_power_push = U8(0)]
    /\ AssertEvaluate(2, FALSE)

\* test 09 assigning a sequence value next to the intended one
test_mcdc_case_09_seq_9 ==
    /\ pc = "test" /\ cur = 9
    /\ AssignInputs(ACT_INIT, 9, 0)
    /\ AssertEvaluate(9, TRUE)

test_mcdc_case_01_TTFFFFFT ==
    /\ pc = "test" /\ cur = 1
    /\ AssignInputs(ACT_INIT, 1, 0)
    /\ AssertEvaluate(1, TRUE)

test_mcdc_case_02_FTFFFFFT ==
    /\ pc = "test" /\ cur = 2
    /\ AssignInputs(ACT_NORMAL, 1, 0)
    /\ AssertEvaluate(2, FALSE)

test_mcdc_case_03_TFFFFFFT ==
    /\ pc = "test" /\ cur = 3
    /\ AssignInputs(ACT_INIT, 0, 0)
    /\ AssertEvaluate(3, FALSE)

test_mcdc_case_04_TTFFFFFF ==
    /\ pc = "test" /\ cur = 4
    /\ AssignInputs(ACT_INIT, 1, 1)
    /\ AssertEvaluate(4, FALSE)

test_mcdc_case_05_TFTFFFFT ==
    /\ pc = "test" /\ cur = 5
    /\ AssignInputs(ACT_INIT, 2, 0)
    /\ AssertEvaluate(5, TRUE)

test_mcdc_case_06_TFFTFFFT ==
    /\ pc = "test" /\ cur = 6
    /\ AssignInputs(ACT_INIT, 3, 0)
    /\ AssertEvaluate(6, TRUE)

test_mcdc_case_07_TFFFTFFT ==
    /\ pc = "test" /\ cur = 7
    /\ AssignInputs(ACT_INIT, 6, 0)
    /\ AssertEvaluate(7, TRUE)

test_mcdc_case_08_TFFFFTFT ==
    /\ pc = "test" /\ cur = 8
    /\ AssignInputs(ACT_INIT, 7, 0)
    /\ AssertEvaluate(8, TRUE)

test_mcdc_case_09_TFFFFFTT ==
    /\ pc = "test" /\ cur = 9
    /\ AssignInputs(ACT_INIT, 8, 0)
    /\ AssertEvaluate(9, TRUE)

-----------------------------------------------------------------------------
(* The test program *)

sensorIdle ==
    /\ base_threshold = 0 /\ sensor_val = 0 /\ threshold = 0
    /\ calls = <<>> /\ sensor_result = 0

cmdIdle ==
    /\ command = NULL /\ arg1 = NULL /\ arg2 = NULL
    /\ userPerm = 0 /\ isDebugMode = 0 /\ result = 0 /\ stdout = <<>>

Init ==
    /\ mState = mStateZero
    /\ mHandyData = mHandyDataZero
    /\ test_condition_result = FALSE
    /\ pc = "main"
    /\ cur = 0
    /\ ret = FALSE
    /\ observed = [i \in TestIds |-> NoObservation]
    /\ CurrentTestFailed = FALSE
    /\ TestFailures = 0
    /\ cmdIdle
    /\ sensorIdle

Next ==
    \/ \E i \in TestIds : RUN_TEST(i)
    \/ setUp
    \/ test_mcdc_case_01_TTFFFFFT
    \/ test_mcdc_case_02_FTFFFFFT
    \/ test_mcdc_case_03_TFFFFFFT
    \/ test_mcdc_case_04_TTFFFFFF
    \/ test_mcdc_case_05_TFTFFFFT
    \/ test_mcdc_case_06_TFFTFFFT
    \/ test_mcdc_case_07_TFFFTFFT
    \/ test_mcdc_case_08_TFFFFTFT
    \/ test_mcdc_case_09_TFFFFFTT
    \/ tearDown

Spec == Init /\ [][Next]_vars

-----------------------------------------------------------------------------
(* evaluate_condition() called on arbitrary globals *)

\* the members evaluate_condition does not name: all clear, or all set
OtherBits == {0, 1}

mStateWith(act, o) ==
    [bit |-> [state |-> 7 * o, act |-> act, half |-> o, rvs |-> o,
              handmv |-> o, stopsw |-> o, init |-> o, strk |-> 7 * o,
              test |-> o, error |-> o, safestop |-> o],
     dat |-> Uint16Max * o]

InitEval ==
    /\ \E act \in 0..(Pow2(ActWidth) - 1), o \in OtherBits :
          mState = mStateWith(act, o)
    /\ \E af \in 0..Uint8Max, op \in 0..Uint8Max, o \in OtherBits :
          mHandyData = [af_power_on |-> af, op_power_push |-> op,
                        unlock |-> Uint8Max * o]
    /\ test_condition_result = FALSE
    /\ pc = "call"
    /\ cur = 0
    /\ ret = FALSE
    /\ observed = [i \in TestIds |-> NoObservation]
    /\ CurrentTestFailed = FALSE
    /\ TestFailures = 0
    /\ cmdIdle
    /\ sensorIdle

Call_evaluate_condition ==
    /\ pc = "call"
    /\ ret' = evaluate_condition
    /\ pc' = "return"
    /\ UNCHANGED <<mState, mHandyData, test_condition_result, cur, observed,
                   CurrentTestFailed, TestFailures>>
    /\ UNCHANGED cmdVars
    /\ UNCHANGED sensorVars

NextEval == Call_evaluate_condition

SpecEval == InitEval /\ [][NextEval]_vars

-----------------------------------------------------------------------------
(* complex_sample.c : types and libc helpers *)

PERM_ADMIN == 3
PERM_USER  == 2
PERM_GUEST == 1
PERM_NONE  == 0

PermissionLevel == {PERM_NONE, PERM_GUEST, PERM_USER, PERM_ADMIN}

\* string literals compared against in processCommand
S_fopen == <<"f", "o", "p", "e", "n">>
S_fclose == <<"f", "c", "l", "o", "s", "e">>
S_uadd == <<"u", "a", "d", "d">>
S_udel == <<"u", "d", "e", "l">>
S_status == <<"s", "t", "a", "t", "u", "s">>
S_shutdown == <<"s", "h", "u", "t", "d", "o", "w", "n">>
S_nping == <<"n", "p", "i", "n", "g">>
S_nconnect == <<"n", "c", "o", "n", "n", "e", "c", "t">>
S_r == <<"r">>
S_rb == <<"r", "b">>
S_w == <<"w">>
S_wb == <<"w", "b">>
S_v == <<"-", "v">>
S_force == <<"-", "-", "f", "o", "r", "c", "e">>

strlen(p) == Len(p.str)

\* strcmp(p, literal) == 0, p not NULL
streq(p, literal) == p.str = literal

Digits == <<"0", "1", "2", "3", "4", "5", "6", "7", "8", "9">>
IsDigit(c) == \E d \in 1..10 : Digits[d] = c
DigitValue(c) == (CHOOSE d \in 1..10 : Digits[d] = c) - 1
IsSpace(c) == c \in {" ", "\t", "\n", "\r", "\f"}

RECURSIVE SkipSpace(_)
SkipSpace(s) ==
    IF s # <<>> /\ IsSpace(Head(s)) THEN SkipSpace(Tail(s)) ELSE s

RECURSIVE ParseDigits(_, _)
ParseDigits(s, acc) ==
    IF s # <<>> /\ IsDigit(Head(s))
    THEN ParseDigits(Tail(s), 10 * acc + DigitValue(Head(s)))
    ELSE acc

\* atoi(p): leading white space, an optional sign, then decimal digits up to
\* the first other character (the inputs of this model stay within int)
atoi(p) ==
    LET t == SkipSpace(p.str) IN
    IF t = <<>> THEN 0
    ELSE IF Head(t) = "-" THEN 0 - ParseDigits(Tail(t), 0)
    ELSE IF Head(t) = "+" THEN ParseDigits(Tail(t), 0)
    ELSE ParseDigits(t, 0)

\* the for loop of the nping branch: number of '.' in arg1
dotCount(p) == Cardinality({i \in 1..Len(p.str) : p.str[i] = "."})

Return(r, lines) == [result |-> r, out |-> lines]

-----------------------------------------------------------------------------
(* processCommand, one operator per case of the switch on command[0] *)

\* the write-mode check done at PERM_USER instead of PERM_ADMIN
FileCommands_write_for_user(cmd, a1, a2, perm, debug) ==
    IF streq(cmd, S_fopen) \/ streq(cmd, S_fclose) THEN
        IF (perm >= PERM_USER /\ ~a1.null) \/ (perm = PERM_ADMIN /\ debug # 0) THEN
            IF streq(cmd, S_fopen) THEN
                IF ~a1.null /\ strlen(a1) > 0 /\ ~a2.null /\ strlen(a2) > 0 THEN
                    IF streq(a2, S_r) \/ streq(a2, S_rb) THEN
                        Return(1, <<"[FILE] Opening file: %s with mode: %s",
                                    "  -> Read mode">>)
                    ELSE IF streq(a2, S_w) \/ streq(a2, S_wb) THEN
                        IF perm >= PERM_USER THEN
                            Return(1, <<"[FILE] Opening file: %s with mode: %s",
                                        "  -> Write mode (admin)">>)
                        ELSE
                            Return(-2, <<"[FILE] Opening file: %s with mode: %s",
                                         "  -> ERROR: Write permission denied">>)
                    ELSE
                        Return(0, <<"[FILE] Opening file: %s with mode: %s">>)
                ELSE
                    Return(-1, <<"[FILE] ERROR: Invalid arguments">>)
            ELSE
                Return(1, <<"[FILE] Closing file: %s">>)
        ELSE
            Return(-2, <<"[FILE] ERROR: Permission denied">>)
    ELSE
        Return(0, <<>>)

\* case 'f'
FileCommands(cmd, a1, a2, perm, debug) ==
    IF streq(cmd, S_fopen) \/ streq(cmd, S_fclose) THEN
        IF (perm >= PERM_USER /\ ~a1.null) \/ (perm = PERM_ADMIN /\ debug # 0) THEN
            IF streq(cmd, S_fopen) THEN
                IF ~a1.null /\ strlen(a1) > 0 /\ ~a2.null /\ strlen(a2) > 0 THEN
                    IF streq(a2, S_r) \/ streq(a2, S_rb) THEN
                        Return(1, <<"[FILE] Opening file: %s with mode: %s",
                                    "  -> Read mode">>)
                    ELSE IF streq(a2, S_w) \/ streq(a2, S_wb) THEN
                        IF perm >= PERM_ADMIN THEN
                            Return(1, <<"[FILE] Opening file: %s with mode: %s",
                                        "  -> Write mode (admin)">>)
                        ELSE
                            Return(-2, <<"[FILE] Opening file: %s with mode: %s",
                                         "  -> ERROR: Write permission denied">>)
                    ELSE
                        Return(0, <<"[FILE] Opening file: %s with mode: %s">>)
                ELSE
                    Return(-1, <<"[FILE] ERROR: Invalid arguments">>)
            ELSE
                Return(1, <<"[FILE] Closing file: %s">>)
        ELSE
            Return(-2, <<"[FILE] ERROR: Permission denied">>)
    ELSE
        Return(0, <<>>)

\* the administrator check relaxed to "at least PERM_USER"
UserCommands_for_user(cmd, a1, a2, perm) ==
    IF streq(cmd, S_uadd) \/ streq(cmd, S_udel) THEN
        IF perm >= PERM_USER THEN
            IF streq(cmd, S_uadd) THEN
                IF ~a1.null /\ ~a2.null THEN
                    LET newUserPerm == atoi(a2) IN
                    IF (newUserPerm >= PERM_GUEST /\ newUserPerm <= PERM_ADMIN) /\
                       strlen(a1) >= 3 /\ strlen(a1) <= 20 THEN
                        Return(1, <<"[USER] Adding user: %s with permission: %d">>)
                    ELSE
                        Return(-1, <<"[USER] ERROR: Invalid user parameters">>)
                ELSE
                    Return(0, <<>>)
            ELSE
                Return(1, <<"[USER] Deleting user: %s">>)
        ELSE
            Return(-2, <<"[USER] ERROR: Admin permission required">>)
    ELSE
        Return(0, <<>>)

\* case 'u'
UserCommands(cmd, a1, a2, perm) ==
    IF streq(cmd, S_uadd) \/ streq(cmd, S_udel) THEN
        IF perm = PERM_ADMIN THEN
            IF streq(cmd, S_uadd) THEN
                IF ~a1.null /\ ~a2.null THEN
                    LET newUserPerm == atoi(a2) IN
                    IF (newUserPerm >= PERM_GUEST /\ newUserPerm <= PERM_ADMIN) /\
                       strlen(a1) >= 3 /\ strlen(a1) <= 20 THEN
                        Return(1, <<"[USER] Adding user: %s with permission: %d">>)
                    ELSE
                        Return(-1, <<"[USER] ERROR: Invalid user parameters">>)
                ELSE
                    Return(0, <<>>)
            ELSE
                Return(1, <<"[USER] Deleting user: %s">>)
        ELSE
            Return(-2, <<"[USER] ERROR: Admin permission required">>)
    ELSE
        Return(0, <<>>)

\* the permission test made before the debug-mode test
Shutdown_permission_first(a1, perm, debug) ==
    IF perm # PERM_ADMIN THEN
        Return(-2, <<"[SYSTEM] ERROR: Admin permission required">>)
    ELSE IF debug # 0 THEN
        Return(-3, <<"[SYSTEM] ERROR: Shutdown disabled in debug mode">>)
    ELSE IF ~a1.null /\ streq(a1, S_force) THEN
        Return(1, <<"[SYSTEM] Force shutdown initiated">>)
    ELSE
        Return(1, <<"[SYSTEM] Normal shutdown initiated">>)

\* "--force" letting the administrator shut down in debug mode as well
Shutdown_force_in_debug(a1, perm, debug) ==
    IF perm = PERM_ADMIN /\ (debug = 0 \/ (~a1.null /\ streq(a1, S_force))) THEN
        IF ~a1.null /\ streq(a1, S_force) THEN
            Return(1, <<"[SYSTEM] Force shutdown initiated">>)
        ELSE
            Return(1, <<"[SYSTEM] Normal shutdown initiated">>)
    ELSE IF debug # 0 THEN
        Return(-3, <<"[SYSTEM] ERROR: Shutdown disabled in debug mode">>)
    ELSE
        Return(-2, <<"[SYSTEM] ERROR: Admin permission required">>)

\* the shutdown branch of case 's'
Shutdown(a1, perm, debug) ==
    IF perm = PERM_ADMIN /\ debug = 0 THEN
        IF ~a1.null /\ streq(a1, S_force) THEN
            Return(1, <<"[SYSTEM] Force shutdown initiated">>)
        ELSE
            Return(1, <<"[SYSTEM] Normal shutdown initiated">>)
    ELSE IF debug # 0 THEN
        Return(-3, <<"[SYSTEM] ERROR: Shutdown disabled in debug mode">>)
    ELSE
        Return(-2, <<"[SYSTEM] ERROR: Admin permission required">>)

\* case 's'
SystemCommands(cmd, a1, perm, debug) ==
    IF streq(cmd, S_status) \/ streq(cmd, S_shutdown) THEN
        IF streq(cmd, S_status) THEN
            IF ~a1.null /\ streq(a1, S_v) /\ (debug # 0 \/ perm >= PERM_USER) THEN
                Return(1, <<"[SYSTEM] Status check",
                            "  -> Verbose mode enabled",
                            "  -> Debug: %s, Permission: %d">>)
            ELSE
                Return(1, <<"[SYSTEM] Status check">>)
        ELSE
            Shutdown(a1, perm, debug)
    ELSE
        Return(0, <<>>)

\* case 'n'
NetworkCommands(cmd, a1, a2, perm, debug) ==
    IF streq(cmd, S_nping) \/ streq(cmd, S_nconnect) THEN
        IF (perm >= PERM_USER \/ debug # 0) /\ ~a1.null THEN
            IF streq(cmd, S_nping) THEN
                IF dotCount(a1) = 3 /\ strlen(a1) >= 7 THEN
                    Return(1, <<"[NETWORK] Pinging: %s">>)
                ELSE
                    Return(-1, <<"[NETWORK] ERROR: Invalid IP format">>)
            ELSE
                IF ~a2.null THEN
                    LET port == atoi(a2) IN
                    IF port > 0 /\ port <= 65535 THEN
                        Return(1, <<"[NETWORK] Connecting to: %s", "  -> Port: %d">>)
                    ELSE
                        Return(-1, <<"[NETWORK] Connecting to: %s",
                                     "  -> ERROR: Invalid port">>)
                ELSE
                    Return(0, <<"[NETWORK] Connecting to: %s">>)
        ELSE
            Return(-2, <<"[NETWORK] ERROR: Permission denied or missing arguments">>)
    ELSE
        Return(0, <<>>)

processCommand(cmd, a1, a2, perm, debug) ==
    IF ~cmd.null /\ strlen(cmd) > 0 THEN
        CASE cmd.str[1] = "f" -> FileCommands(cmd, a1, a2, perm, debug)
          [] cmd.str[1] = "u" -> UserCommands(cmd, a1, a2, perm)
          [] cmd.str[1] = "s" -> SystemCommands(cmd, a1, perm, debug)
          [] cmd.str[1] = "n" -> NetworkCommands(cmd, a1, a2, perm, debug)
          [] OTHER -> Return(-1, <<"[ERROR] Unknown command: %s">>)
    ELSE
        Return(-1, <<"[ERROR] NULL or empty command">>)

-----------------------------------------------------------------------------
(* processCommand called on arbitrary arguments *)

Rep(c, k) == [i \in 1..k |-> c]

RecognisedCommands ==
    {S_fopen, S_fclose, S_uadd, S_udel, S_status, S_shutdown, S_nping,
     S_nconnect}

CommandValues ==
    {NULL, Str(<<>>)} \cup {Str(c) : c \in RecognisedCommands} \cup
    {Str(c) : c \in
        {<<"f">>,
         <<"f", "o", "o">>,
         <<"f", "o", "p", "e", "n", "x">>,
         <<"u">>,
         <<"u", "a", "d", "d", "x">>,
         <<"s">>,
         <<"s", "t", "a", "t">>,
         <<"n">>,
         <<"n", "p", "i", "n", "g", "6">>,
         <<"h", "e", "l", "p">>,
         <<"x">>,
         <<"F", "o", "p", "e", "n">>}}

Arg1Values ==
    {NULL} \cup {Str(Rep("a", k)) : k \in 0..MaxNameLen} \cup
    {Str(a) : a \in
        {<<"-", "v">>,
         <<"-", "-", "f", "o", "r", "c", "e">>,
         <<"d", "a", "t", "a", ".", "t", "x", "t">>,
         <<"1", "9", "2", ".", "1", "6", "8", ".", "1", ".", "1">>,
         <<"1", ".", "2", ".", "3", ".", "4">>,
         <<"1", ".", "2", ".", "3", ".">>,
         <<"1", ".", "2", ".", "3", ".", "4", ".", "5">>,
         <<"n", "e", "w", "u", "s", "e", "r">>}}

Arg2Values ==
    {NULL} \cup
    {Str(a) : a \in
        {<<>>,
         <<"r">>,
         <<"r", "b">>,
         <<"w">>,
         <<"w", "b">>,
         <<"a">>,
         <<"0">>,
         <<"1">>,
         <<"2">>,
         <<"3">>,
         <<"4">>,
         <<"-", "1">>,
         <<"8", "0">>,
         <<"6", "5", "5", "3", "5">>,
         <<"6", "5", "5", "3", "6">>,
         <<" ", "2">>,
         <<"2", "x">>,
         <<"x">>,
         <<"+", "3">>}}

DebugValues == (0 - MaxDebug)..MaxDebug

InitCmd ==
    /\ mState = mStateZero
    /\ mHandyData = mHandyDataZero
    /\ test_condition_result = FALSE
    /\ pc = "call"
    /\ cur = 0
    /\ ret = FALSE
    /\ observed = [i \in TestIds |-> NoObservation]
    /\ CurrentTestFailed = FALSE
    /\ TestFailures = 0
    /\ command \in CommandValues
    /\ arg1 \in Arg1Values
    /\ arg2 \in Arg2Values
    /\ userPerm \in PermissionLevel
    /\ isDebugMode \in DebugValues
    /\ result = 0
    /\ stdout = <<>>
    /\ sensorIdle

Call_processCommand ==
    /\ pc = "call"
    /\ LET r == processCommand(command, arg1, arg2, userPerm, isDebugMode) IN
          /\ result' = r.result
          /\ stdout' = r.out
    /\ pc' = "return"
    /\ UNCHANGED <<command, arg1, arg2, userPerm, isDebugMode>>
    /\ UNCHANGED testVars
    /\ UNCHANGED sensorVars

NextCmd == Call_processCommand

SpecCmd == InitCmd /\ [][NextCmd]_vars

-----------------------------------------------------------------------------
(* sample_with_mock.c : evaluate_sensor and the external functions it calls *)

\* values an int takes in this model
IntValues == (0 - MaxValue)..MaxValue

Call(fn, args, returned) == [fn |-> fn, args |-> args, ret |-> returned]

\* the comparison accepting a sensor value equal to the threshold
Verdict_at_least(sensor, limit) == IF sensor >= limit THEN 1 ELSE 0

\* if (sensor_val > threshold) return 1; else return 0;
Verdict(sensor, limit) == IF sensor > limit THEN 1 ELSE 0

InitSensor ==
    /\ mState = mStateZero
    /\ mHandyData = mHandyDataZero
    /\ test_condition_result = FALSE
    /\ pc = "evaluate_sensor"
    /\ cur = 0
    /\ ret = FALSE
    /\ observed = [i \in TestIds |-> NoObservation]
    /\ CurrentTestFailed = FALSE
    /\ TestFailures = 0
    /\ cmdIdle
    /\ base_threshold \in IntValues
    /\ sensor_val = 0
    /\ threshold = 0
    /\ calls = <<>>
    /\ sensor_result = 0

\* int sensor_val = get_sensor_value();  the external function returns any int
get_sensor_value ==
    /\ pc = "evaluate_sensor"
    /\ \E v \in IntValues :
          /\ sensor_val' = v
          /\ calls' = Append(calls, Call("get_sensor_value", <<>>, v))
    /\ pc' = "calculate_threshold"
    /\ UNCHANGED <<base_threshold, threshold, sensor_result>>
    /\ UNCHANGED testVars
    /\ UNCHANGED cmdVars

\* int threshold = calculate_threshold(base_threshold);  returns any int
calculate_threshold ==
    /\ pc = "calculate_threshold"
    /\ \E v \in IntValues :
          /\ threshold' = v
          /\ calls' = Append(calls, Call("calculate_threshold",
                                         <<base_threshold>>, v))
    /\ pc' = "compare"
    /\ UNCHANGED <<base_threshold, sensor_val, sensor_result>>
    /\ UNCHANGED testVars
    /\ UNCHANGED cmdVars

Return_evaluate_sensor ==
    /\ pc = "compare"
    /\ sensor_result' = Verdict(sensor_val, threshold)
    /\ pc' = "sensor_return"
    /\ UNCHANGED <<base_threshold, sensor_val, threshold, calls>>
    /\ UNCHANGED testVars
    /\ UNCHANGED cmdVars

NextSensor ==
    \/ get_sensor_value
    \/ calculate_threshold
    \/ Return_evaluate_sensor

SpecSensor == InitSensor /\ [][NextSensor]_vars

-----------------------------------------------------------------------------
(* Properties of the test file *)

\* C1: for every act in 0..3, af_power_on in 0..255 and op_power_push in
\* 0..255, evaluate_condition() returns true iff act = 2 and af_power_on is
\* one of 1, 2, 3, 6, 7, 8 and op_power_push = 0, whatever the other members
\* hold, and the call changes no global.
C1_EvaluateCondition ==
    /\ [](pc = "return" =>
            (ret <=> (/\ mState.bit.act = 2
                      /\ mHandyData.af_power_on \in {1, 2, 3, 6, 7, 8}
                      /\ mHandyData.op_power_push = 0)))
    /\ [][UNCHANGED <<mState, mHandyData, test_condition_result>>]_vars

C1_Witness ==
    /\ pc = "return" /\ ret = TRUE
    /\ mHandyData.af_power_on = 8
    /\ mState.dat = Uint16Max /\ mHandyData.unlock = Uint8Max

DiffersOnlyIn(v, w, k) ==
    /\ v[k] # w[k]
    /\ \A m \in (1..8) \ {k} : v[m] = w[m]

AllObserved == \A i \in TestIds : observed[i].seen

\* C2: the nine tests give 100% MC/DC: the condition vector each test's
\* assignments produce is the pattern in its name, the decision it gets is
\* the asserted one, and once all nine have run every condition C1..C8 has
\* two tests whose vectors differ in that condition only and whose decisions
\* differ.
C2_McdcCoverage ==
    /\ \A i \in TestIds :
          observed[i].seen =>
             /\ observed[i].vec = NamePattern(i)
             /\ observed[i].outcome = Asserted(i)
    /\ AllObserved =>
          \A k \in 1..8 : \E i, j \in TestIds :
             /\ DiffersOnlyIn(observed[i].vec, observed[j].vec, k)
             /\ observed[i].outcome # observed[j].outcome

C2_Witness == AllObserved /\ pc = "main"

\* C7: after setUp, whatever test ran before, every field of mState
\* (mState.bit.act included), af_power_on, op_power_push and
\* test_condition_result are zero.
C7_SetUpResetsGlobals ==
    pc = "test" =>
       /\ mState = mStateZero
       /\ mHandyData.af_power_on = 0
       /\ mHandyData.op_power_push = 0
       /\ test_condition_result = FALSE

\* C8: in every sequence of the nine tests, in any order and with
\* repetition, each preceded by setUp, no assertion fails.
C8_TestsIndependentOfOrder ==
    /\ TestFailures = 0
    /\ ~CurrentTestFailed
    /\ pc = "tearDown" => ret = Asserted(cur)

\* test 02 passing although test 01 left mState.bit.act = ACT_INIT behind
C8_Witness ==
    /\ pc = "tearDown" /\ cur = 2
    /\ observed[1].seen /\ observed[2].seen
    /\ ret = FALSE

-----------------------------------------------------------------------------
(* Properties of processCommand *)

IsCommand(lit) == ~command.null /\ command.str = lit

\* C3: -2 means "permission denied" only: no call by PERM_ADMIN outside debug
\* mode returns -2, whatever the command, arg1 and arg2.
C3_Minus2OnlyPermissionDenied ==
    (pc = "return" /\ userPerm = PERM_ADMIN /\ isDebugMode = 0) => result # -2

\* C4: processCommand returns -3 iff the command is "shutdown" and
\* isDebugMode is nonzero, for every permission level and every arg1/arg2.
C4_Minus3IffShutdownInDebug ==
    pc = "return" =>
       (result = -3 <=> (IsCommand(S_shutdown) /\ isDebugMode # 0))

\* a non-administrator asking for shutdown in debug mode gets -3, not -2
C4_Witness ==
    /\ pc = "return" /\ IsCommand(S_shutdown)
    /\ userPerm = PERM_GUEST /\ isDebugMode # 0
    /\ result = -3

\* C5: "shutdown" returns 1 iff userPerm = PERM_ADMIN and isDebugMode = 0,
\* whatever arg1 and arg2 are; every other shutdown call returns a negative
\* code.
C5_ShutdownAdminNoDebugOnly ==
    (pc = "return" /\ IsCommand(S_shutdown)) =>
       /\ result = 1 <=> (userPerm = PERM_ADMIN /\ isDebugMode = 0)
       /\ result # 1 => result < 0

C5_Witness ==
    /\ pc = "return" /\ IsCommand(S_shutdown)
    /\ userPerm = PERM_ADMIN /\ isDebugMode = 0
    /\ arg1 = NULL
    /\ result = 1

\* C6: "uadd" and "udel" return -2 for every userPerm other than PERM_ADMIN,
\* whatever arg1, arg2 and isDebugMode are; for PERM_ADMIN, "uadd" with a
\* non-NULL arg1 of length 3..20 and an arg2 that parses to 1..3 returns 1,
\* and "udel" returns 1.
C6_UserCommandsAdminOnly ==
    (pc = "return" /\ (IsCommand(S_uadd) \/ IsCommand(S_udel))) =>
       /\ userPerm # PERM_ADMIN => result = -2
       /\ (/\ userPerm = PERM_ADMIN /\ IsCommand(S_uadd)
           /\ ~arg1.null /\ Len(arg1.str) \in 3..20
           /\ ~arg2.null /\ atoi(arg2) \in 1..3) => result = 1
       /\ (userPerm = PERM_ADMIN /\ IsCommand(S_udel)) => result = 1

C6_Witness ==
    /\ pc = "return" /\ IsCommand(S_uadd)
    /\ userPerm = PERM_ADMIN
    /\ ~arg1.null /\ Len(arg1.str) = 20
    /\ arg2 = Str(<<"3">>)
    /\ result = 1

\* C9: processCommand returns -1 for every command it does not handle: NULL,
\* the empty string and every string that is not one of the eight recognised
\* names, those beginning with 'f', 'u', 's' or 'n' included.
C9_UnhandledCommandReturnsMinus1 ==
    (pc = "return" /\ (command.null \/ command.str \notin RecognisedCommands))
       => result = -1

IsWriteMode(a) == ~a.null /\ (a.str = <<"w">> \/ a.str = <<"w", "b">>)

\* C10 as stated: "fopen" with arg2 "w" or "wb" returns 1 iff userPerm =
\* PERM_ADMIN and arg1 is a non-empty string; every lower permission level
\* gets -2, whatever isDebugMode is.
C10_WriteOpenAsStated ==
    (pc = "return" /\ IsCommand(S_fopen) /\ IsWriteMode(arg2)) =>
       /\ result = 1 <=> (userPerm = PERM_ADMIN /\ ~arg1.null /\ arg1.str # <<>>)
       /\ userPerm < PERM_ADMIN => result = -2

\* C10 amended: "fopen" with arg2 "w" or "wb" returns 1 iff userPerm =
\* PERM_ADMIN and arg1 is a non-empty string; a lower permission level never
\* gets 1: it gets -2, except PERM_USER with an empty (non-NULL) arg1, which
\* gets -1, whatever isDebugMode is.
C10_WriteOpenNeedsAdmin ==
    (pc = "return" /\ IsCommand(S_fopen) /\ IsWriteMode(arg2)) =>
       /\ result = 1 <=> (userPerm = PERM_ADMIN /\ ~arg1.null /\ arg1.str # <<>>)
       /\ userPerm < PERM_ADMIN =>
             result = IF userPerm = PERM_USER /\ ~arg1.null /\ arg1.str = <<>>
                      THEN -1 ELSE -2

C10_Witness ==
    /\ pc = "return" /\ IsCommand(S_fopen) /\ arg2 = Str(<<"w", "b">>)
    /\ userPerm = PERM_USER /\ isDebugMode # 0
    /\ ~arg1.null /\ arg1.str # <<>>
    /\ result = -2

-----------------------------------------------------------------------------
(* Properties of evaluate_sensor *)

\* C11: evaluate_sensor(base_threshold) calls get_sensor_value once, then
\* calculate_threshold once with base_threshold as its argument, and nothing
\* else; it returns 1 iff the sensor value is strictly greater than the
\* threshold returned, and 0 otherwise.
C11_EvaluateSensor ==
    /\ Len(calls) <= 2
    /\ Len(calls) >= 1 =>
          calls[1].fn = "get_sensor_value" /\ calls[1].args = <<>>
    /\ Len(calls) = 2 =>
          /\ calls[2].fn = "calculate_threshold"
          /\ calls[2].args = <<base_threshold>>
    /\ pc = "sensor_return" =>
          /\ Len(calls) = 2
          /\ sensor_result \in {0, 1}
          /\ sensor_result = 1 <=> calls[1].ret > calls[2].ret

\* sensor value equal to the threshold, which differs from base_threshold
C11_Witness ==
    /\ pc = "sensor_return"
    /\ Len(calls) = 2
    /\ calls[1].ret = calls[2].ret
    /\ calls[2].ret # base_threshold
    /\ sensor_result = 0

====
